---- MODULE Spec2Model ----
(***************************************************************************)
(* SteamBanCheckerBot: the ban checker of src/steambot/checker.py, with    *)
(* the store of src/steambot/models.py.  Time is counted in hours since    *)
(* an epoch; a datetime is an hour count, its date() the day it falls in.  *)
(***************************************************************************)
EXTENDS Integers, Sequences, FiniteSets, Bags, TLC

\* ------------------------------------------------------------- bounds
MaxUser == 1        \* identities the chat and the store may name: 1..MaxUser
MaxGuild == 2       \* guilds the bot has joined: 1..MaxGuild
MaxTasks == 2       \* coroutines in flight at once
MaxMessages == 2    \* message events delivered in one run
MaxHours == 1       \* scheduler intervals that elapse in one run
MaxDaysSince == 1   \* largest days_since_last_ban the upstream reports
StartDay == 2       \* day of the epoch on which the process starts
MaxPop == 50        \* largest user table of the batch-partition check
MaxCycleUser == 3   \* identities of the cycle with registrations: 1..MaxCycleUser
MaxDetectDay == 2   \* last day of the datetimes given to the detector
BatchMembers == 2   \* users of one batch in the runs with failing lookups
MaxReplays == 2     \* on_ready events (startup, reconnects) of one run
MaxNameUser == 3    \* accounts of the runs that follow display names: 1..MaxNameUser
MaxNames == 2       \* display names an account may take: 1..MaxNames
MaxLen == 3         \* longest string given to the extractor, the examples apart
MaxFragments == 3   \* URLs and words of a chat text, the example apart
MaxStatsUser == 2   \* identities of the runs that send statistics: 1..MaxStatsUser
MaxJoins == 2       \* join events of one run
MaxTicks == 4       \* runs of the watchdog's ticker in one run

\* ------------------------------------------------- program constants
CHECK_INTERVAL == 24
TicksPerDay == 24
None == -1

UserIds == 1..MaxUser
GuildIds == 1..MaxGuild
TaskIds == 1..MaxTasks

\* a channel that is the notify channel of no guild
OtherChannel == MaxGuild + 1

VARIABLES
    now,          \* datetime.utcnow(), in hours
    steam,        \* upstream: day of each account's last ban, or None
    user,         \* table "user": id -> row
    guild,        \* table "guild": id -> row
    user_guild,   \* table "user_guild": <<user id, guild id>> -> number of rows
    tasks,        \* coroutines in flight, by slot
    sent,         \* embeds delivered to the chat service (a bag)
    nmsg,         \* message events delivered so far
    arg,          \* input of the function under check, or the store at start
    res           \* its result, or what a run has logged

vars == <<now, steam, user, guild, user_guild, tasks, sent, nmsg, arg, res>>

\* --------------------------------------------------------- datetimes
\* datetime.date()
Date(t) == t \div TicksPerDay

\* datetime.hour
Hour(t) == t % TicksPerDay

\* datetime.replace(hour=0, minute=0, second=0, microsecond=0)
Midnight(t) == t - (t % TicksPerDay)

\* timedelta(days=d)
Days(d) == d * TicksPerDay

\* math.ceil(a / b) for a >= 0, b > 0
ceil(a, b) == IF a % b = 0 THEN a \div b ELSE (a \div b) + 1

\* ----------------------------------------------------- lookup gateway
\* BanChecker._get_steam_user: ban_date is None unless the account is
\* banned, and then utcnow() - timedelta(days=days_since_last_ban).
\* lastban is the day of the account's last ban as the upstream holds it.
get_steam_user(lastban, t) ==
    IF lastban = None THEN None ELSE t - Days(Date(t) - lastban)

\* --------------------------------------------------- transition detector
\* a detector that takes the same day for a change
ban_status_changed_ge(source, comparison) ==
    IF comparison = None THEN FALSE
    ELSE IF source = None THEN TRUE
    ELSE Date(comparison) >= Date(source)

\* a detector that takes any fetched ban for a change
ban_status_changed_any(source, comparison) == comparison # None

\* a detector that compares the datetimes, time of day included
ban_status_changed_ts(source, comparison) ==
    IF comparison = None THEN FALSE
    ELSE IF source = None THEN TRUE
    ELSE comparison > source

\* BanChecker.ban_status_changed
ban_status_changed(source, comparison) ==
    IF comparison = None THEN FALSE
    ELSE IF source = None THEN TRUE
    ELSE Date(comparison) > Date(source)

\* ------------------------------------------------------------- store
\* session.query(User.id): the ids of the table in rowid order, which for
\* an INTEGER PRIMARY KEY is the order of the ids.
RECURSIVE SortedSeq(_)
SortedSeq(S) ==
    IF S = {} THEN <<>>
    ELSE LET m == CHOOSE x \in S : \A y \in S : x <= y
         IN <<m>> \o SortedSeq(S \ {m})

Min(a, b) == IF a <= b THEN a ELSE b

\* .limit(batch_size).offset(offset) over rows
LimitOffset(rows, limit, offset) ==
    SubSeq(rows, offset + 1, Min(offset + limit, Len(rows)))

\* a slice whose size is rounded down
Batch_floor(rows, hour) ==
    LET total_users == Len(rows)
        batch_size == total_users \div CHECK_INTERVAL
    IN LimitOffset(rows, batch_size, batch_size * hour)

\* check_bans_task: the slice of the user table selected at hour
Batch(rows, hour) ==
    LET total_users == Len(rows)
        batch_size == ceil(total_users, CHECK_INTERVAL)
    IN LimitOffset(rows, batch_size, batch_size * hour)

\* user.servers: the guilds joined to user u
Servers(u) == {g \in GuildIds : user_guild[<<u, g>>] > 0}

\* a flush that inserts a row for every guild appended
Extend_append(u, guilds) ==
    [p \in DOMAIN user_guild |->
        IF p[1] = u /\ p[2] \in guilds
        THEN user_guild[p] + 1 ELSE user_guild[p]]

\* db_user.servers.extend(guilds) at flush: the unit of work inserts one
\* row for each guild of the collection that was not in it when loaded.
Extend(u, guilds) ==
    [p \in DOMAIN user_guild |->
        IF p[1] = u /\ p[2] \in guilds /\ user_guild[p] = 0
        THEN user_guild[p] + 1 ELSE user_guild[p]]

\* ------------------------------------------------------------- tasks
\* A coroutine in flight: where it stands (pc), its arguments (user,
\* guild_ids; {} stands for guild_ids=None), the ban_date its lookup
\* returned, and the fields of the row held by its session
\* (user.date_banned, and the guilds of user.servers it notifies).
Idle == [pc |-> "idle", user |-> 0, guild_ids |-> {}, ban_date |-> None,
         date_banned |-> None, servers |-> {}]

Free == {t \in TaskIds : tasks[t].pc = "idle"}

\* the free slots, lowest first
FreeSlots == SortedSeq(Free)

\* asyncio tasks started for the users of seq, one each, at position pc
\* with arguments guild_ids
Spawn(seq, pc, guild_ids) ==
    [t \in TaskIds |->
        IF \E i \in 1..Len(seq) : FreeSlots[i] = t
        THEN [Idle EXCEPT !.pc = pc,
                          !.user = seq[CHOOSE i \in 1..Len(seq) : FreeSlots[i] = t],
                          !.guild_ids = guild_ids]
        ELSE tasks[t]]

\* ------------------------------------------------------------ states
\* BanChecker.__init__ opens the database file as it is: the guilds the
\* bot has joined are in it, each with its notify channel set or not.  The
\* notify channel of guild g, when set, is channel g of the chat service.
GuildTables ==
    {gt \in [GuildIds -> [channel : GuildIds \cup {None}]] :
        \A g \in GuildIds : gt[g].channel \in {None, g}}

StartNow == Days(StartDay) + (TicksPerDay - 1)

Init ==
    /\ now = StartNow
    /\ steam = [u \in UserIds |-> None]
    /\ user = << >>
    /\ guild \in GuildTables
    /\ user_guild = [p \in UserIds \X GuildIds |-> 0]
    /\ tasks = [t \in TaskIds |-> Idle]
    /\ sent = EmptyBag
    /\ nmsg = 0
    /\ arg = << >>
    /\ res = << >>

\* ---------------------------------------------------------- upstream
\* The upstream changes what it reports of account u (is_vac_banned,
\* is_game_banned, days_since_last_ban): no ban (d = None), or a last ban
\* on day d, at most MaxDaysSince days ago.
SteamChange(u, d) ==
    /\ d = None \/ Date(now) - d \in 0..MaxDaysSince
    /\ steam[u] # d
    /\ steam' = [steam EXCEPT ![u] = d]
    /\ UNCHANGED <<now, user, guild, user_guild, tasks, sent, nmsg, arg, res>>

\* The upstream reports a new ban of account u, later than any it has
\* reported; it never lifts a ban.
SteamBan(u, d) ==
    /\ d # None
    /\ steam[u] = None \/ steam[u] < d
    /\ SteamChange(u, d)

\* The worker thread of run_in_thread runs _get_steam_user for task t and
\* holds its answer until the event loop resumes the coroutine.
run_in_thread(t) ==
    /\ tasks[t].pc \in {"process_lookup", "check_lookup"}
    /\ tasks' = [tasks EXCEPT
           ![t].ban_date = get_steam_user(steam[tasks[t].user], now),
           ![t].pc = IF tasks[t].pc = "process_lookup" THEN "process_store"
                     ELSE "check_compare"]
    /\ UNCHANGED <<now, steam, user, guild, user_guild, sent, nmsg, arg, res>>

\* --------------------------------------------------------- ingestion
\* BanChecker.on_message for a message of guild g in channel c whose text
\* names the identities ids (search.find_user_ids_in_string), followed by
\* process_user_ids up to the lookups of process_user_id.
on_message(g, c, ids) ==
    /\ nmsg < MaxMessages
    /\ nmsg' = nmsg + 1
    /\ IF guild[g].channel # None /\ guild[g].channel # c
       THEN UNCHANGED tasks
       ELSE /\ Cardinality(ids) <= Cardinality(Free)
            /\ tasks' = Spawn(SortedSeq(ids), "process_lookup", {g})
    /\ UNCHANGED <<now, steam, user, guild, user_guild, sent, arg, res>>

\* The rows of table "user" after process_user_id stored ban_date for u
Upsert(u, ban_date) ==
    IF u \in DOMAIN user
    THEN [user EXCEPT ![u].date_banned = ban_date]
    ELSE user @@ (u :> [date_banned |-> ban_date])

\* BanChecker.process_user_id, from the answer of its lookup to the end:
\* the row is stored and check_ban is started as a task of its own.
process_user_id(t) ==
    /\ tasks[t].pc = "process_store"
    /\ user' = Upsert(tasks[t].user, tasks[t].ban_date)
    /\ user_guild' = Extend(tasks[t].user, tasks[t].guild_ids)
    /\ tasks' = [tasks EXCEPT ![t].pc = "check_start", ![t].ban_date = None]
    /\ UNCHANGED <<now, steam, guild, sent, nmsg, arg, res>>

\* ------------------------------------------------------------ checks
\* BanChecker.check_ban up to its lookup: the session reads the row.
check_ban_start(t) ==
    /\ tasks[t].pc = "check_start"
    /\ tasks[t].user \in DOMAIN user
    /\ tasks' = [tasks EXCEPT ![t].pc = "check_lookup",
                              ![t].date_banned = user[tasks[t].user].date_banned]
    /\ UNCHANGED <<now, steam, user, guild, user_guild, sent, nmsg, arg, res>>

\* a filter that ignores guild_ids
Targets_all(u, guild_ids) == Servers(u)

\* the guilds whose channel check_ban fetches: those of user.servers that
\* pass "not guild_ids or guild_ids and g.id in guild_ids"
Targets(u, guild_ids) ==
    {g \in Servers(u) : guild_ids = {} \/ g \in guild_ids}

\* a check that takes an absent date for a lifted ban and clears the row
check_ban_compare_clear(t) ==
    /\ tasks[t].pc = "check_compare"
    /\ LET u == tasks[t].user
           ban_date == tasks[t].ban_date
       IN IF ban_date = None
          THEN /\ tasks' = [tasks EXCEPT ![t] = Idle]
               /\ user' = [user EXCEPT ![u].date_banned = None]
          ELSE IF ~ban_status_changed(tasks[t].date_banned, ban_date)
          THEN /\ tasks' = [tasks EXCEPT ![t] = Idle]
               /\ UNCHANGED user
          ELSE /\ user' = [user EXCEPT ![u].date_banned = Midnight(ban_date)]
               /\ tasks' = [tasks EXCEPT ![t].pc = "check_fetch",
                                         ![t].date_banned = Midnight(ban_date),
                                         ![t].servers = Targets(u, tasks[t].guild_ids)]
    /\ UNCHANGED <<now, steam, guild, user_guild, sent, nmsg, arg, res>>

\* BanChecker.check_ban from the answer of its lookup to fetch_channel:
\* the fetched date is compared with the row as this session read it.
check_ban_compare(t) ==
    /\ tasks[t].pc = "check_compare"
    /\ LET u == tasks[t].user
           ban_date == tasks[t].ban_date
       IN IF ban_date = None \/ ~ban_status_changed(tasks[t].date_banned, ban_date)
          THEN /\ tasks' = [tasks EXCEPT ![t] = Idle]
               /\ UNCHANGED user
          ELSE /\ user' = [user EXCEPT ![u].date_banned = Midnight(ban_date)]
               /\ tasks' = [tasks EXCEPT ![t].pc = "check_fetch",
                                         ![t].date_banned = Midnight(ban_date),
                                         ![t].servers = Targets(u, tasks[t].guild_ids)]
    /\ UNCHANGED <<now, steam, guild, user_guild, sent, nmsg, arg, res>>

\* the embeds check_ban sends once every channel is fetched
Embeds(t) ==
    SetToBag({[user |-> tasks[t].user, guild |-> g,
               date_banned |-> tasks[t].date_banned] : g \in tasks[t].servers})

\* BanChecker.check_ban from the answers of fetch_channel to the end:
\* fetch_channel(None) raises, and then nothing is sent.
check_ban_send(t) ==
    /\ tasks[t].pc = "check_fetch"
    /\ sent' = IF \E g \in tasks[t].servers : guild[g].channel = None
               THEN sent
               ELSE sent (+) Embeds(t)
    /\ tasks' = [tasks EXCEPT ![t] = Idle]
    /\ UNCHANGED <<now, steam, user, guild, user_guild, nmsg, arg, res>>

\* BanChecker.check_bans_task, run by the scheduler when an interval of
\* 86400 // CHECK_INTERVAL seconds has elapsed: a check_ban for every user
\* of the batch of this hour.
check_bans_task ==
    /\ now < StartNow + MaxHours
    /\ now' = now + 1
    /\ LET users == Batch(SortedSeq(DOMAIN user), Hour(now'))
       IN /\ Len(users) <= Cardinality(Free)
          /\ tasks' = Spawn(users, "check_start", {})
    /\ UNCHANGED <<steam, user, guild, user_guild, sent, nmsg, arg, res>>

Step(t) ==
    \/ run_in_thread(t)
    \/ process_user_id(t)
    \/ check_ban_start(t)
    \/ check_ban_compare(t)
    \/ check_ban_send(t)

Next ==
    \/ \E u \in UserIds, d \in 0..(StartDay + MaxHours) : SteamBan(u, d)
    \/ \E g \in GuildIds, ids \in SUBSET UserIds :
           \E c \in {g, OtherChannel} : on_message(g, c, ids)
    \/ \E t \in TaskIds : Step(t)
    \/ check_bans_task

Spec == Init /\ [][Next]_vars

\* ------------------------------------------- checks one at a time
\* The database file as a run may find it: every identity tracked or not,
\* with any stored date_banned, and a member of every guild.
StoredDates ==
    {None} \cup {Days(k) + h : k \in (StartDay - 1)..StartDay,
                               h \in {0, TicksPerDay - 1}}

UserTables ==
    UNION {[S -> [date_banned : StoredDates]] : S \in SUBSET UserIds}

InitSeq ==
    /\ now = StartNow
    /\ steam = [u \in UserIds |-> None]
    /\ user \in UserTables
    /\ guild \in GuildTables
    /\ user_guild = [p \in UserIds \X GuildIds |->
                        IF p[1] \in DOMAIN user THEN 1 ELSE 0]
    /\ tasks = [t \in TaskIds |-> Idle]
    /\ sent = EmptyBag
    /\ nmsg = 0
    /\ arg = << >>
    /\ res = << >>

\* check_ban(u) is called (by check_bans_task, guild_ids=None) while no
\* other coroutine is in flight.
check_ban_call(u) ==
    /\ \A t \in TaskIds : tasks[t].pc = "idle"
    /\ u \in DOMAIN user
    /\ tasks' = Spawn(<<u>>, "check_start", {})
    /\ UNCHANGED <<now, steam, user, guild, user_guild, sent, nmsg, arg, res>>

\* An hour passes (datetime.utcnow() moves on).
hour_passes ==
    /\ now < StartNow + MaxHours
    /\ now' = now + 1
    /\ UNCHANGED <<steam, user, guild, user_guild, tasks, sent, nmsg, arg, res>>

NextSeq ==
    \/ \E u \in UserIds, d \in {None} \cup 0..(StartDay + MaxHours) : SteamChange(u, d)
    \/ \E u \in UserIds : check_ban_call(u)
    \/ hour_passes
    \/ \E t \in TaskIds :
           \/ run_in_thread(t)
           \/ check_ban_start(t)
           \/ check_ban_compare(t)
           \/ check_ban_send(t)

SpecSeq == InitSeq /\ [][NextSeq]_vars

\* ----------------------------------------------- the detector alone
DetectTimes == {None} \cup 0..(Days(MaxDetectDay + 1) - 1)

InitDetect ==
    /\ now = StartNow
    /\ steam = [u \in UserIds |-> None]
    /\ user = << >>
    /\ guild = [g \in GuildIds |-> [channel |-> None]]
    /\ user_guild = [p \in UserIds \X GuildIds |-> 0]
    /\ tasks = [t \in TaskIds |-> Idle]
    /\ sent = EmptyBag
    /\ nmsg = 0
    /\ arg \in [source : DetectTimes, comparison : DetectTimes]
    /\ res = << >>

\* ban_status_changed(source, comparison) is evaluated
detect ==
    /\ res = << >>
    /\ res' = <<ban_status_changed(arg.source, arg.comparison)>>
    /\ UNCHANGED <<now, steam, user, guild, user_guild, tasks, sent, nmsg, arg>>

SpecDetect == InitDetect /\ [][detect]_vars

\* ------------------------------------------- one cycle of batches
\* res counts, for each identity, the batches that selected it; arg holds
\* the user table at the start of the cycle, the ticks run and the sum of
\* the batch sizes.
InitCycleWith(ids) ==
    /\ now = Days(StartDay) - 1
    /\ steam = [u \in UserIds |-> None]
    /\ user = [u \in ids |-> [date_banned |-> None]]
    /\ guild = [g \in GuildIds |-> [channel |-> None]]
    /\ user_guild = [p \in UserIds \X GuildIds |-> 0]
    /\ tasks = [t \in TaskIds |-> Idle]
    /\ sent = EmptyBag
    /\ nmsg = 0
    /\ arg = [start |-> ids, ticks |-> 0, sum |-> 0]
    /\ res = [u \in ids |-> 0]

InSeq(x, seq) == \E i \in 1..Len(seq) : seq[i] = x

\* check_bans_task, an hour after the last: the batch of this hour is
\* selected, one check_ban each.
cycle_tick ==
    /\ arg.ticks < CHECK_INTERVAL
    /\ now' = now + 1
    /\ LET users == Batch(SortedSeq(DOMAIN user), Hour(now'))
       IN /\ res' = [u \in DOMAIN res |-> IF InSeq(u, users) THEN res[u] + 1 ELSE res[u]]
          /\ arg' = [arg EXCEPT !.ticks = @ + 1, !.sum = @ + Len(users)]
    /\ UNCHANGED <<steam, user, guild, user_guild, tasks, sent, nmsg>>

\* process_user_id stores a row for identity u, not tracked so far.
cycle_register(u) ==
    /\ u \notin DOMAIN user
    /\ user' = Upsert(u, None)
    /\ res' = res @@ (u :> 0)
    /\ UNCHANGED <<now, steam, guild, user_guild, tasks, sent, nmsg, arg>>

InitBatch == \E n \in 0..MaxPop : InitCycleWith(1..n)

SpecBatch == InitBatch /\ [][cycle_tick]_vars

InitCycle == \E ids \in SUBSET (1..MaxCycleUser) : InitCycleWith(ids)

NextCycle ==
    \/ cycle_tick
    \/ \E u \in 1..MaxCycleUser : cycle_register(u)

SpecCycle == InitCycle /\ [][NextCycle]_vars

\* ------------------------------------------------- ingestion alone
\* Messages are ingested while the upstream reports no ban and before
\* the scheduler's first interval has elapsed.
NextIngest ==
    \/ \E g \in GuildIds, ids \in SUBSET UserIds :
           \E c \in {g, OtherChannel} : on_message(g, c, ids)
    \/ \E t \in TaskIds :
           \/ run_in_thread(t)
           \/ process_user_id(t)
           \/ check_ban_start(t)
           \/ check_ban_compare(t)

SpecIngest == Init /\ [][NextIngest]_vars

\* ------------------------------------------------ lookups that fail
\* a gather that cancels the siblings of the coroutine that raised
lookup_fails_abort(t) ==
    /\ tasks[t].pc \in {"process_lookup", "check_lookup"}
    /\ tasks' = [t2 \in TaskIds |-> Idle]
    /\ res' = res \cup {tasks[t].user}
    /\ UNCHANGED <<now, steam, user, guild, user_guild, sent, nmsg, arg>>

\* _get_steam_user raises in the worker thread of task t (UserNotFoundError,
\* or an error of the connection): the exception leaves process_user_id or
\* check_ban at its await, before anything is written, and closes its
\* session.  asyncio.gather hands it to its awaiter and lets the other
\* coroutines run on.  res holds the users whose lookup failed.
lookup_fails(t) ==
    /\ tasks[t].pc \in {"process_lookup", "check_lookup"}
    /\ tasks' = [tasks EXCEPT ![t] = Idle]
    /\ res' = res \cup {tasks[t].user}
    /\ UNCHANGED <<now, steam, user, guild, user_guild, sent, nmsg, arg>>

\* the users of the first batch of the day, in a table just large enough
\* for a batch of BatchMembers
BatchIds == 1..BatchMembers

TableSize == CHECK_INTERVAL * (BatchMembers - 1) + 1

\* The database file holds TableSize users, those of the first batch with
\* a stored date or none and members of every guild; the upstream reports
\* each of them banned today or not at all.  arg keeps the table as found.
InitFail ==
    /\ now = StartNow
    /\ steam \in {[u \in 1..TableSize |-> IF u \in BatchIds THEN bans[u] ELSE None] :
                   bans \in [BatchIds -> {None, StartDay}]}
    /\ user \in {[u \in 1..TableSize |->
                      IF u \in BatchIds THEN rows[u] ELSE [date_banned |-> None]] :
                  rows \in [BatchIds -> [date_banned : {None, Days(StartDay - 1)}]]}
    /\ guild \in GuildTables
    /\ user_guild = [p \in (1..TableSize) \X GuildIds |->
                        IF p[1] \in BatchIds THEN 1 ELSE 0]
    /\ tasks = [t \in TaskIds |-> Idle]
    /\ sent = EmptyBag
    /\ nmsg = 0
    /\ arg = user
    /\ res = {}

NextFail ==
    \/ check_bans_task
    \/ \E t \in TaskIds :
           \/ run_in_thread(t)
           \/ lookup_fails(t)
           \/ check_ban_start(t)
           \/ check_ban_compare(t)
           \/ check_ban_send(t)

SpecFail == InitFail /\ [][NextFail]_vars

\* ------------------------------------------------ sends that fail
\* the embeds of task t for the guilds gs
EmbedsTo(t, gs) ==
    SetToBag({[user |-> tasks[t].user, guild |-> g,
               date_banned |-> tasks[t].date_banned] : g \in gs})

\* a gather that cancels the other sends when one raises
check_ban_send_fails_abort(t, failing) ==
    /\ tasks[t].pc = "check_fetch"
    /\ \A g \in tasks[t].servers : guild[g].channel # None
    /\ failing # {} /\ failing \subseteq tasks[t].servers
    /\ sent' = sent
    /\ res' = res (+) EmbedsTo(t, failing)
    /\ tasks' = [tasks EXCEPT ![t] = Idle]
    /\ UNCHANGED <<now, steam, user, guild, user_guild, nmsg, arg>>

\* BanChecker.check_ban from the answers of fetch_channel to the end when
\* c.send raises for the channels of the guilds failing: every channel was
\* fetched, asyncio.gather started one send per channel and hands the
\* first exception to check_ban, which ends with it; the other sends are
\* not cancelled and deliver.  res is the bag of the embeds that were not
\* delivered.
check_ban_send_fails(t, failing) ==
    /\ tasks[t].pc = "check_fetch"
    /\ \A g \in tasks[t].servers : guild[g].channel # None
    /\ failing # {} /\ failing \subseteq tasks[t].servers
    /\ sent' = sent (+) EmbedsTo(t, tasks[t].servers \ failing)
    /\ res' = res (+) EmbedsTo(t, failing)
    /\ tasks' = [tasks EXCEPT ![t] = Idle]
    /\ UNCHANGED <<now, steam, user, guild, user_guild, nmsg, arg>>

\* The database file as a run may find it, and an upstream that reports
\* each account banned today or not at all.
InitDeliver ==
    /\ now = StartNow
    /\ steam \in [UserIds -> {None, StartDay}]
    /\ user \in UserTables
    /\ guild \in GuildTables
    /\ user_guild = [p \in UserIds \X GuildIds |->
                        IF p[1] \in DOMAIN user THEN 1 ELSE 0]
    /\ tasks = [t \in TaskIds |-> Idle]
    /\ sent = EmptyBag
    /\ nmsg = 0
    /\ arg = << >>
    /\ res = EmptyBag

\* checks one at a time, with sends that may fail
NextDeliver ==
    \/ \E u \in UserIds : check_ban_call(u)
    \/ hour_passes
    \/ \E t \in TaskIds :
           \/ run_in_thread(t)
           \/ check_ban_start(t)
           \/ check_ban_compare(t)
           \/ check_ban_send(t)
           \/ \E failing \in SUBSET GuildIds : check_ban_send_fails(t, failing)

SpecDeliver == InitDeliver /\ [][NextDeliver]_vars

\* ---------------------------------------------- replay and reactions
\* The messages of the monitored channel of one guild, each naming some
\* identity.  arg holds the chat service and the coroutines in flight:
\* posted (the messages of the channel), reacted (those carrying a reaction
\* of the bot), live (the on_message handlers waiting in add_reaction),
\* replay (the on_ready in flight, as the messages of the history it
\* fetched that passed the reaction test), ready (on_ready events so far).
\* res counts, for each message, how often its identities were handed to
\* process_user_ids.
MessageIds == 1..MaxMessages

InitReplay ==
    /\ now = StartNow
    /\ steam = [u \in UserIds |-> None]
    /\ user = << >>
    /\ guild = [g \in GuildIds |-> [channel |-> g]]
    /\ user_guild = [p \in UserIds \X GuildIds |-> 0]
    /\ tasks = [t \in TaskIds |-> Idle]
    /\ sent = EmptyBag
    /\ nmsg = 0
    /\ arg = [posted |-> {}, reacted |-> {}, live |-> {}, replay |-> << >>,
              ready |-> 0]
    /\ res = [m \in MessageIds |-> 0]

\* Message m is posted while the bot is disconnected: no event is delivered.
message_missed(m) ==
    /\ m \notin arg.posted
    /\ arg' = [arg EXCEPT !.posted = @ \cup {m}]
    /\ UNCHANGED <<now, steam, user, guild, user_guild, tasks, sent, nmsg, res>>

\* Message m is posted and on_message runs get_user_ids_from_message up to
\* its await of add_reaction: a new message carries no reaction.
on_message_extract(m) ==
    /\ m \notin arg.posted
    /\ arg' = [arg EXCEPT !.posted = @ \cup {m}, !.live = @ \cup {m}]
    /\ UNCHANGED <<now, steam, user, guild, user_guild, tasks, sent, nmsg, res>>

\* add_reaction of the handler of m is served and on_message goes on to
\* process_user_ids.
on_message_process(m) ==
    /\ m \in arg.live
    /\ arg' = [arg EXCEPT !.live = @ \ {m}, !.reacted = @ \cup {m}]
    /\ res' = [res EXCEPT ![m] = @ + 1]
    /\ UNCHANGED <<now, steam, user, guild, user_guild, tasks, sent, nmsg>>

\* on_ready, up to the awaits of add_reaction in find_missed_user_ids:
\* channel.history() returns the messages with the reactions they carry
\* when it is served, and get_user_ids_from_message drops those with a
\* reaction of the bot.
on_ready_extract ==
    /\ arg.ready < MaxReplays
    /\ arg.replay = << >>
    /\ arg' = [arg EXCEPT !.ready = @ + 1,
                          !.replay = <<arg.posted \ arg.reacted>>]
    /\ UNCHANGED <<now, steam, user, guild, user_guild, tasks, sent, nmsg, res>>

\* the add_reaction calls of on_ready are served and on_ready goes on to
\* process_user_ids.
on_ready_process ==
    /\ arg.replay # << >>
    /\ arg' = [arg EXCEPT !.replay = << >>, !.reacted = @ \cup arg.replay[1]]
    /\ res' = [m \in MessageIds |-> IF m \in arg.replay[1] THEN res[m] + 1 ELSE res[m]]
    /\ UNCHANGED <<now, steam, user, guild, user_guild, tasks, sent, nmsg>>

NextReplay ==
    \/ \E m \in MessageIds :
           \/ message_missed(m)
           \/ on_message_extract(m)
           \/ on_message_process(m)
    \/ on_ready_extract
    \/ on_ready_process

SpecReplay == InitReplay /\ [][NextReplay]_vars

\* ------------------------------------- ingestion and checks in turn
\* on_message for a message that arrives while no coroutine is in flight
on_message_call(g, c, ids) ==
    /\ \A t \in TaskIds : tasks[t].pc = "idle"
    /\ on_message(g, c, ids)

\* Users are named in messages and checked by the scheduler, one event at
\* a time, while the upstream reports bans of today.
NextScope ==
    \/ \E u \in UserIds : SteamBan(u, Date(now))
    \/ \E g \in GuildIds, ids \in SUBSET UserIds :
           \E c \in {g, OtherChannel} : on_message_call(g, c, ids)
    \/ \E u \in UserIds : check_ban_call(u)
    \/ \E t \in TaskIds : Step(t)

\* The database file holds every user, not banned, a member of every guild.
InitScope ==
    /\ now = StartNow
    /\ steam = [u \in UserIds |-> None]
    /\ user = [u \in UserIds |-> [date_banned |-> None]]
    /\ guild \in GuildTables
    /\ user_guild = [p \in UserIds \X GuildIds |-> 1]
    /\ tasks = [t \in TaskIds |-> Idle]
    /\ sent = EmptyBag
    /\ nmsg = 0
    /\ arg = << >>
    /\ res = << >>

SpecScope == InitScope /\ [][NextScope]_vars

\* ------------------------------------------------------ display names
\* arg holds steam_user.name of every account as the upstream has it; res
\* holds column "name" of table "user" (name) and the last answer of
\* _get_steam_user as its caller received it (looked).
NameUsers == 1..MaxNameUser

Names == 1..MaxNames

InitName ==
    /\ now = StartNow
    /\ steam = [u \in NameUsers |-> None]
    /\ user = << >>
    /\ guild = [g \in GuildIds |-> [channel |-> g]]
    /\ user_guild = [p \in NameUsers \X GuildIds |-> 0]
    /\ tasks = [t \in TaskIds |-> Idle]
    /\ sent = EmptyBag
    /\ nmsg = 0
    /\ arg \in [NameUsers -> Names]
    /\ res = [name |-> << >>, looked |-> << >>]

\* The account u takes the display name n.
rename(u, n) ==
    /\ arg[u] # n
    /\ arg' = [arg EXCEPT ![u] = n]
    /\ UNCHANGED <<now, steam, user, guild, user_guild, tasks, sent, nmsg, res>>

\* column "name" after process_user_id received user_name for u:
\* User(id=user_id, name=user_name) when there is no row, and the row as
\* it is otherwise
UpsertName(names, u, user_name) ==
    IF u \in DOMAIN names THEN names ELSE names @@ (u :> user_name)

\* BanChecker.process_user_id for u, from its lookup to its commit
process_user_id_name(u) ==
    /\ user' = Upsert(u, get_steam_user(steam[u], now))
    /\ res' = [name |-> UpsertName(res.name, u, arg[u]),
               looked |-> <<[user |-> u, name |-> arg[u]]>>]
    /\ UNCHANGED <<now, steam, guild, user_guild, tasks, sent, nmsg, arg>>

\* BanChecker.check_ban for the tracked user u, whom the upstream reports
\* not banned: "_, _, ban_date = ..." drops the name, and the check
\* returns.
check_ban_name(u) ==
    /\ u \in DOMAIN user
    /\ get_steam_user(steam[u], now) = None
    /\ res' = [res EXCEPT !.looked = <<[user |-> u, name |-> arg[u]]>>]
    /\ UNCHANGED <<now, steam, user, guild, user_guild, tasks, sent, nmsg, arg>>

NextName ==
    \/ \E u \in NameUsers, n \in Names : rename(u, n)
    \/ \E u \in NameUsers : process_user_id_name(u)
    \/ \E u \in NameUsers : check_ban_name(u)

SpecName == InitName /\ [][NextName]_vars

\* ---------------------------------------------------------- extractor
\* A string is a sequence of characters.  A compiled pattern of search.py
\* is a record: the literal texts one of which opens a match (lits), the
\* group, which is a character of first followed by characters of rest,
\* or, when min = 0, any run of characters of rest, and the characters
\* that may follow the group (trail).
Lower == {"a", "b", "c", "d", "e", "f", "g", "h", "i", "j", "k", "l", "m", "n",
         "o", "p", "q", "r", "s", "t", "u", "v", "w", "x", "y", "z"}

Upper == {"A", "B", "C", "D", "E", "F", "G", "H", "I", "J", "K", "L", "M", "N",
         "O", "P", "Q", "R", "S", "T", "U", "V", "W", "X", "Y", "Z"}

Digits == {"0", "1", "2", "3", "4", "5", "6", "7", "8", "9"}

\* the characters other than letters and digits that the inputs hold
Punctuation == {"!", "[", "/", ":", ".", "#", " "}

Chars == Lower \cup Upper \cup Digits \cup Punctuation

\* ([1-9][0-9]*)
STEAM_ID_REGEX ==
    [lits |-> {<< >>}, first |-> Digits \ {"0"}, rest |-> Digits, min |-> 1,
     trail |-> {}]

\* ([a-zA-Z[0-9]+): the class holds the left bracket
USERNAME_REGEX ==
    [lits |-> {<< >>}, first |-> Lower \cup Upper \cup {"["} \cup Digits,
     rest |-> Lower \cup Upper \cup {"["} \cup Digits, min |-> 1, trail |-> {}]

\* http(?:|s)://steamcommunity\.com/id/([^/]*)
COMMUNITY_URL_REGEX ==
    [lits |-> {<<"h", "t", "t", "p", ":", "/", "/", "s", "t", "e", "a", "m", "c",
               "o", "m", "m", "u", "n", "i", "t", "y", ".", "c", "o", "m", "/", "i",
               "d", "/">>,
               <<"h", "t", "t", "p", "s", ":", "/", "/", "s", "t", "e", "a", "m",
               "c", "o", "m", "m", "u", "n", "i", "t", "y", ".", "c", "o", "m", "/",
               "i", "d", "/">>},
     first |-> Chars \ {"/"}, rest |-> Chars \ {"/"}, min |-> 0, trail |-> {}]

\* http(?:|s)://steamcommunity\.com/profiles/([1-9][0-9]*)[/]*
PROFILE_URL_REGEX ==
    [lits |-> {<<"h", "t", "t", "p", ":", "/", "/", "s", "t", "e", "a", "m", "c",
               "o", "m", "m", "u", "n", "i", "t", "y", ".", "c", "o", "m", "/", "p",
               "r", "o", "f", "i", "l", "e", "s", "/">>,
               <<"h", "t", "t", "p", "s", ":", "/", "/", "s", "t", "e", "a", "m",
               "c", "o", "m", "m", "u", "n", "i", "t", "y", ".", "c", "o", "m", "/",
               "p", "r", "o", "f", "i", "l", "e", "s", "/">>},
     first |-> Digits \ {"0"}, rest |-> Digits, min |-> 1, trail |-> {"/"}]

\* http(?:|s)://csgostats\.gg/player/([1-9][0-9]*)[/#]*
CSGO_STATS_REGEX ==
    [lits |-> {<<"h", "t", "t", "p", ":", "/", "/", "c", "s", "g", "o", "s", "t",
               "a", "t", "s", ".", "g", "g", "/", "p", "l", "a", "y", "e", "r", "/">>,
               <<"h", "t", "t", "p", "s", ":", "/", "/", "c", "s", "g", "o", "s",
               "t", "a", "t", "s", ".", "g", "g", "/", "p", "l", "a", "y", "e", "r",
               "/">>},
     first |-> Digits \ {"0"}, rest |-> Digits, min |-> 1, trail |-> {"/", "#"}]

\* the literal texts of regex that open a match of string at position i
LitsAt(regex, string, i) ==
    {l \in regex.lits :
        /\ i + Len(l) - 1 <= Len(string)
        /\ SubSeq(string, i, i + Len(l) - 1) = l}

\* the last position of the longest run of characters of class that
\* starts at position i of string; i - 1 when the run is empty
RunEnd(string, i, class) ==
    CHOOSE j \in (i - 1)..Len(string) :
        /\ \A k \in i..j : string[k] \in class
        /\ j = Len(string) \/ string[j + 1] \notin class

\* where the group of a match of regex opening at i starts and ends, when
\* there is a match at i: << >> when there is none
MatchAt(regex, string, i) ==
    IF LitsAt(regex, string, i) = {} THEN << >>
    ELSE LET l == CHOOSE x \in LitsAt(regex, string, i) : TRUE
             g == i + Len(l)
         IN IF regex.min = 0
            THEN <<g, RunEnd(string, g, regex.rest)>>
            ELSE IF g <= Len(string) /\ string[g] \in regex.first
                 THEN <<g, RunEnd(string, g + 1, regex.rest)>>
                 ELSE << >>

\* regex.findall(string) from position i on: the groups of the matches,
\* leftmost first, none overlapping
RECURSIVE findall(_, _, _)
findall(regex, string, i) ==
    LET starts == {j \in i..Len(string) : MatchAt(regex, string, j) # << >>}
    IN IF starts = {} THEN << >>
       ELSE LET j == CHOOSE x \in starts : \A y \in starts : x <= y
                m == MatchAt(regex, string, j)
            IN <<SubSeq(string, m[1], m[2])>>
                   \o findall(regex, string,
                              RunEnd(string, m[2] + 1, regex.trail) + 1)

\* search.find_user_ids_in_string: what it returns, and what it raises
find_user_ids_in_string(string, full_check) ==
    [user_ids |->
        IF full_check
        THEN findall(COMMUNITY_URL_REGEX, string, 1)
                 \o findall(PROFILE_URL_REGEX, string, 1)
                 \o findall(CSGO_STATS_REGEX, string, 1)
        ELSE findall(STEAM_ID_REGEX, string, 1)
                 \o findall(USERNAME_REGEX, string, 1),
     raised |-> None]

\* the strings over alphabet of length n at most
RECURSIVE StringsUpTo(_, _)
StringsUpTo(alphabet, n) ==
    IF n = 0 THEN {<< >>}
    ELSE LET shorter == StringsUpTo(alphabet, n - 1)
         IN shorter \cup {Append(x, c) : x \in shorter, c \in alphabet}

\* the inputs of strict mode: the short strings over a letter, two digits,
\* the left bracket and a character of no pattern, and "abc123" and "!!!"
StrictInputs ==
    StringsUpTo({"a", "1", "0", "[", "!"}, MaxLen)
        \cup {<<"a", "b", "c", "1", "2", "3">>, <<"!", "!", "!">>}

InitStrict ==
    /\ now = StartNow
    /\ steam = [u \in UserIds |-> None]
    /\ user = << >>
    /\ guild = [g \in GuildIds |-> [channel |-> None]]
    /\ user_guild = [p \in UserIds \X GuildIds |-> 0]
    /\ tasks = [t \in TaskIds |-> Idle]
    /\ sent = EmptyBag
    /\ nmsg = 0
    /\ arg \in StrictInputs
    /\ res = << >>

\* find_user_ids_in_string(arg, full_check=False) is evaluated
extract_strict ==
    /\ res = << >>
    /\ res' = <<find_user_ids_in_string(arg, FALSE)>>
    /\ UNCHANGED <<now, steam, user, guild, user_guild, tasks, sent, nmsg, arg>>

SpecStrict == InitStrict /\ [][extract_strict]_vars

\* the https form of the literal text of a URL pattern
Https(regex) == CHOOSE l \in regex.lits : l[5] = "s"

\* the pieces of a chat text: a vanity URL, a profile URL, a stats-site
\* URL, a word and a space
Fragments ==
    {Https(COMMUNITY_URL_REGEX) \o <<"a", "b", "/">>,
     Https(PROFILE_URL_REGEX) \o <<"7", "6">>,
     Https(CSGO_STATS_REGEX) \o <<"7", "7">>,
     <<"x">>, <<" ">>}

\* the texts made of n pieces at most
RECURSIVE TextsUpTo(_)
TextsUpTo(n) ==
    IF n = 0 THEN {<< >>}
    ELSE LET shorter == TextsUpTo(n - 1)
         IN shorter \cup {x \o f : x \in shorter, f \in Fragments}

\* "check https://steamcommunity.com/profiles/76561198000000000 and
\* https://csgostats.gg/player/76561198000000001"
ExampleText ==
    <<"c", "h", "e", "c", "k", " ">>
        \o Https(PROFILE_URL_REGEX)
        \o <<"7", "6", "5", "6", "1", "1", "9", "8", "0", "0", "0", "0", "0",
           "0", "0", "0", "0">>
        \o <<" ", "a", "n", "d", " ">>
        \o Https(CSGO_STATS_REGEX)
        \o <<"7", "6", "5", "6", "1", "1", "9", "8", "0", "0", "0", "0", "0",
           "0", "0", "0", "1">>

PermissiveInputs == TextsUpTo(MaxFragments) \cup {ExampleText}

InitPermissive ==
    /\ now = StartNow
    /\ steam = [u \in UserIds |-> None]
    /\ user = << >>
    /\ guild = [g \in GuildIds |-> [channel |-> None]]
    /\ user_guild = [p \in UserIds \X GuildIds |-> 0]
    /\ tasks = [t \in TaskIds |-> Idle]
    /\ sent = EmptyBag
    /\ nmsg = 0
    /\ arg \in PermissiveInputs
    /\ res = << >>

\* find_user_ids_in_string(arg) is evaluated, full_check being True
extract_permissive ==
    /\ res = << >>
    /\ res' = <<find_user_ids_in_string(arg, TRUE)>>
    /\ UNCHANGED <<now, steam, user, guild, user_guild, tasks, sent, nmsg, arg>>

SpecPermissive == InitPermissive /\ [][extract_permissive]_vars

\* --------------------------------------------------------- statistics
\* a message chosen by the count of banned users
StatsMessage_banned(total_count, banned_count) ==
    IF banned_count = 0
    THEN [text |-> "No players are being tracked.", banned_count |-> 0,
          total_count |-> 0]
    ELSE [text |-> "{banned_count} of {total_count} players have been banned",
          banned_count |-> banned_count, total_count |-> total_count]

\* the message of send_stats: a fixed text when total_count is 0, and
\* otherwise a text formatted from banned_count and total_count
StatsMessage(total_count, banned_count) ==
    IF total_count = 0
    THEN [text |-> "No players are being tracked.", banned_count |-> 0,
          total_count |-> 0]
    ELSE [text |-> "{banned_count} of {total_count} players have been banned",
          banned_count |-> banned_count, total_count |-> total_count]

StatsUsers == 1..MaxStatsUser

\* arg holds the send_stats in flight, if any, with what it counted; res
\* holds the last message send_stats sent, with the guild that received it.
InitStats ==
    /\ now = StartNow
    /\ steam = [u \in StatsUsers |-> None]
    /\ user \in UNION {[S -> [date_banned : {None, Days(StartDay)}]] :
                          S \in SUBSET StatsUsers}
    /\ guild \in GuildTables
    /\ user_guild = [p \in StatsUsers \X GuildIds |-> 0]
    /\ tasks = [t \in TaskIds |-> Idle]
    /\ sent = EmptyBag
    /\ nmsg = 0
    /\ arg = << >>
    /\ res = << >>

\* BanChecker.send_stats(g) up to its await of fetch_channel: the session
\* counts the users and the banned users.
send_stats_count(g) ==
    /\ arg = << >>
    /\ arg' = <<[guild |-> g,
                 total_count |-> Cardinality(DOMAIN user),
                 banned_count |-> Cardinality({u \in DOMAIN user :
                                                  user[u].date_banned # None})]>>
    /\ UNCHANGED <<now, steam, user, guild, user_guild, tasks, sent, nmsg, res>>

\* BanChecker.send_stats from the answer of fetch_channel to the end;
\* fetch_channel(None) raises, and then nothing is sent.
send_stats_send ==
    /\ arg # << >>
    /\ arg' = << >>
    /\ res' = IF guild[arg[1].guild].channel = None THEN res
              ELSE <<[guild |-> arg[1].guild,
                      message |-> StatsMessage(arg[1].total_count,
                                               arg[1].banned_count)]>>
    /\ UNCHANGED <<now, steam, user, guild, user_guild, tasks, sent, nmsg>>

\* A coroutine commits date_banned = d for user u (process_user_id for
\* any u, check_ban for a tracked u).
stats_store(u, d) ==
    /\ IF u \in DOMAIN user THEN user[u].date_banned # d ELSE TRUE
    /\ user' = Upsert(u, d)
    /\ UNCHANGED <<now, steam, guild, user_guild, tasks, sent, nmsg, arg, res>>

NextStats ==
    \/ \E g \in GuildIds : send_stats_count(g)
    \/ send_stats_send
    \/ \E u \in StatsUsers, d \in {None, Days(StartDay)} : stats_store(u, d)

SpecStats == InitStats /\ [][NextStats]_vars

\* -------------------------------------------------------------- startup
\* arg is the environment of the process: each variable is not set
\* ("<unset>"), or set to a text, which may be empty; res is what main()
\* did: the critical line it logged, whether it constructed and ran the
\* checker and with which database path, and the exit status of the
\* process once main() has returned.
Environments ==
    [LOGGING_CONFIG : {"<unset>", "/config/logging.json"},
     DISCORD_API_TOKEN : {"<unset>", "", "discord-token"},
     STEAM_API_TOKEN : {"<unset>", "", "steam-token"},
     DATABASE : {"<unset>", "/data/bans.db", "/data"}]

\* os.getenv(name) is falsy: None or the empty text
Missing(value) == value \in {"<unset>", ""}

\* os.path.isdir(path), of the paths of Environments
isdir(path) == path = "/data"

\* main.main(), and the interpreter's exit after "main()" returned
main_result(env) ==
    IF Missing(env.DISCORD_API_TOKEN)
    THEN [critical |-> "DISCORD_API_TOKEN envvar not found.",
          checker |-> FALSE, database |-> "", status |-> 0]
    ELSE IF Missing(env.STEAM_API_TOKEN)
    THEN [critical |-> "STEAM_API_TOKEN envvar not found.",
          checker |-> FALSE, database |-> "", status |-> 0]
    ELSE LET database == IF env.DATABASE = "<unset>"
                         THEN "/data/steam_ban_checker.db"
                         ELSE env.DATABASE
         IN [critical |-> "", checker |-> TRUE,
             database |-> IF isdir(database)
                          THEN database \o "/steam_ban_checker.db"
                          ELSE database,
             status |-> 0]

InitMain ==
    /\ now = StartNow
    /\ steam = [u \in UserIds |-> None]
    /\ user = << >>
    /\ guild = [g \in GuildIds |-> [channel |-> None]]
    /\ user_guild = [p \in UserIds \X GuildIds |-> 0]
    /\ tasks = [t \in TaskIds |-> Idle]
    /\ sent = EmptyBag
    /\ nmsg = 0
    /\ arg \in Environments
    /\ res = << >>

\* the process runs main() to its end
main ==
    /\ res = << >>
    /\ res' = <<main_result(arg)>>
    /\ UNCHANGED <<now, steam, user, guild, user_guild, tasks, sent, nmsg, arg>>

SpecMain == InitMain /\ [][main]_vars

\* ------------------------------------------------------ the batch tick
\* What "await asyncio.gather(*coroutines, return_exceptions=...)" hands
\* to its awaiter, given the coroutines that raised (failed) and those
\* still running (pending): without return_exceptions the first exception
\* is raised at once, the other coroutines run on; with it the awaiter
\* waits for all and gets the exceptions in the list of results.
gather(failed, pending, return_exceptions) ==
    IF ~return_exceptions /\ failed # {} THEN "raised"
    ELSE IF pending = {} THEN "returned"
    ELSE "pending"

\* the users of the sequence seq
Range(seq) == {seq[i] : i \in 1..Len(seq)}

\* the tasks of the coroutines gathered for the users us
InFlight(us) == {t \in TaskIds : tasks[t].pc # "idle" /\ tasks[t].user \in us}

\* arg is the coroutine of check_bans_task: idle, suspended at its gather
\* over the checks of the users arg.users, or ended (returned or raised).
InitTick ==
    /\ now = StartNow
    /\ steam \in {[u \in 1..TableSize |-> IF u \in BatchIds THEN bans[u] ELSE None] :
                   bans \in [BatchIds -> {None, StartDay}]}
    /\ user \in {[u \in 1..TableSize |->
                      IF u \in BatchIds THEN rows[u] ELSE [date_banned |-> None]] :
                  rows \in [BatchIds -> [date_banned : {None, Days(StartDay - 1)}]]}
    /\ guild \in GuildTables
    /\ user_guild = [p \in (1..TableSize) \X GuildIds |->
                        IF p[1] \in BatchIds THEN 1 ELSE 0]
    /\ tasks = [t \in TaskIds |-> Idle]
    /\ sent = EmptyBag
    /\ nmsg = 0
    /\ arg = [pc |-> "idle", users |-> {}]
    /\ res = {}

\* BanChecker.check_bans_task up to its await; the scheduler runs one
\* instance of the job at a time.
check_bans_task_gather ==
    /\ arg.pc # "gather"
    /\ now < StartNow + MaxHours
    /\ now' = now + 1
    /\ LET users == Batch(SortedSeq(DOMAIN user), Hour(now'))
       IN /\ Len(users) <= Cardinality(Free)
          /\ tasks' = Spawn(users, "check_start", {})
          /\ arg' = [pc |-> "gather", users |-> Range(users)]
    /\ UNCHANGED <<steam, user, guild, user_guild, sent, nmsg, res>>

\* BanChecker.check_bans_task from its await to its end: the event loop
\* resumes it when the gather has a result or an exception for it.
check_bans_task_end ==
    /\ arg.pc = "gather"
    /\ gather(res \cap arg.users, InFlight(arg.users), FALSE) # "pending"
    /\ arg' = [arg EXCEPT !.pc = gather(res \cap arg.users, InFlight(arg.users), FALSE)]
    /\ UNCHANGED <<now, steam, user, guild, user_guild, tasks, sent, nmsg, res>>

\* The upstream never answers the request of task t: the worker thread
\* stays in _get_steam_user, and run_in_thread awaits it without a timeout.
lookup_hangs(t) ==
    /\ tasks[t].pc = "check_lookup"
    /\ tasks' = [tasks EXCEPT ![t].pc = "check_hung"]
    /\ UNCHANGED <<now, steam, user, guild, user_guild, sent, nmsg, arg, res>>

NextTick ==
    \/ check_bans_task_gather
    \/ check_bans_task_end
    \/ \E t \in TaskIds :
           \/ run_in_thread(t)
           \/ lookup_fails(t)
           \/ lookup_hangs(t)
           \/ check_ban_start(t)
           \/ check_ban_compare(t)
           \/ check_ban_send(t)

SpecTick == InitTick /\ [][NextTick]_vars

\* The event loop resumes every coroutine that can run, and a worker
\* thread whose request is answered hands the answer over.
TickProgress ==
    \/ check_bans_task_end
    \/ \E t \in TaskIds :
           \/ run_in_thread(t)
           \/ check_ban_start(t)
           \/ check_ban_compare(t)
           \/ check_ban_send(t)

SpecTickFair == SpecTick /\ WF_vars(TickProgress)

\* ------------------------------------------------------ joining a guild
\* Table "guild" as rows [command, channel] by id; the bot may be in a
\* guild or not whatever the table holds (it is removed from guilds and
\* invited again, and no handler deletes a row).  res is the log of the
\* join events handled: the guild, and whether the handler raised.
GuildRows ==
    UNION {[S -> [command : {"!", "?"}, channel : GuildIds \cup {None}]] :
           S \in SUBSET GuildIds}

InitJoin ==
    /\ now = StartNow
    /\ steam = [u \in UserIds |-> None]
    /\ user = << >>
    /\ guild \in {gt \in GuildRows : \A g \in DOMAIN gt : gt[g].channel \in {None, g}}
    /\ user_guild = [p \in UserIds \X GuildIds |-> 0]
    /\ tasks = [t \in TaskIds |-> Idle]
    /\ sent = EmptyBag
    /\ nmsg = 0
    /\ arg = << >>
    /\ res = << >>

\* the row INSERTed for Guild(id=guild.id): the column defaults
NewGuild == [command |-> "!", channel |-> None]

\* BanChecker.on_guild_join for guild g: the INSERT of a row whose primary
\* key is already in the table fails at commit (IntegrityError), the
\* exception leaves the handler and the table is as it was.
on_guild_join(g) ==
    /\ Len(res) < MaxJoins
    /\ IF g \in DOMAIN guild
       THEN /\ UNCHANGED guild
            /\ res' = Append(res, [guild |-> g, raised |-> TRUE])
       ELSE /\ guild' = guild @@ (g :> NewGuild)
            /\ res' = Append(res, [guild |-> g, raised |-> FALSE])
    /\ UNCHANGED <<now, steam, user, user_guild, tasks, sent, nmsg, arg>>

SpecJoin == InitJoin /\ [][\E g \in GuildIds : on_guild_join(g)]_vars

\* ------------------------------------------------- commands in the chat
\* str.startswith: the mutant finds no prefix anywhere
startswith_never(string, prefix) == FALSE

startswith(string, prefix) ==
    /\ Len(prefix) <= Len(string)
    /\ SubSeq(string, 1, Len(prefix)) = prefix

\* The messages members post in the monitored channel of guild 1: a
\* command, a command-like text that holds a profile URL behind either
\* prefix, the URL alone, and a word.
Contents ==
    {<<"!", "s", "t", "a", "t", "s">>,
     <<"!">> \o Https(PROFILE_URL_REGEX) \o <<"7", "6">>,
     <<"#">> \o Https(PROFILE_URL_REGEX) \o <<"7", "6">>,
     Https(PROFILE_URL_REGEX) \o <<"7", "6">>,
     <<"x">>}

\* a message as posted, delivered by an on_message event (live) or not:
\* no reaction of the bot ("" for none), not dispatched as a command, no
\* identity of it handed to process_user_ids
Message(content, live) ==
    [content |-> content, author |-> "member", live |-> live, reaction |-> "",
     dispatched |-> FALSE, stats |-> FALSE, user_ids |-> << >>]

\* arg is the channel, oldest message first; res counts the on_ready
\* events handled.  The guild's command is "!" (the default) or "#".
InitCommand ==
    /\ now = StartNow
    /\ steam = [u \in UserIds |-> None]
    /\ user = << >>
    /\ guild \in {[g \in GuildIds |-> [command |-> c, channel |-> g]] :
                   c \in {<<"!">>, <<"#">>}}
    /\ user_guild = [p \in UserIds \X GuildIds |-> 0]
    /\ tasks = [t \in TaskIds |-> Idle]
    /\ sent = EmptyBag
    /\ nmsg = 0
    /\ arg = << >>
    /\ res = 0

\* an author test that never recognises the bot
authored_by_self_never(m) == FALSE

\* message.author.id == self.user.id
authored_by_self(m) == m.author = "bot"

\* BanChecker.get_user_ids_from_message for message m: m as it is
\* afterwards, user_ids being what the call returned
get_user_ids_from_message(m, command) ==
    IF authored_by_self(m) THEN m
    ELSE IF m.content = << >> THEN m
    ELSE IF startswith(m.content, command) THEN m
    ELSE IF m.reaction # "" THEN m
    ELSE LET user_ids == find_user_ids_in_string(m.content, TRUE).user_ids
         IN [m EXCEPT !.reaction = IF user_ids # << >> THEN "THUMBS_UP"
                                    ELSE "THUMBS_DOWN",
                      !.user_ids = @ \o user_ids]

\* BanChecker.on_message for a message with this content posted in the
\* monitored channel of guild 1: dispatch_command for a command, and
\* otherwise get_user_ids_from_message and process_user_ids.
on_message_content(content) ==
    /\ Len(arg) < MaxMessages
    /\ LET m == Message(content, TRUE)
           command == guild[1].command
       IN arg' = Append(arg,
              IF startswith(content, command)
              THEN [m EXCEPT !.dispatched = TRUE,
                             !.stats = startswith(Tail(content),
                                                  <<"s", "t", "a", "t", "s">>)]
              ELSE get_user_ids_from_message(m, command))
    /\ UNCHANGED <<now, steam, user, guild, user_guild, tasks, sent, nmsg, res>>

\* a message with this content is posted while the bot is disconnected
post_missed(content) ==
    /\ Len(arg) < MaxMessages
    /\ arg' = Append(arg, Message(content, FALSE))
    /\ UNCHANGED <<now, steam, user, guild, user_guild, tasks, sent, nmsg, res>>

\* BanChecker.on_ready: find_missed_user_ids runs
\* get_user_ids_from_message over the history of the channel and
\* process_user_ids gets what it returned.
on_ready ==
    /\ res < MaxReplays
    /\ res' = res + 1
    /\ arg' = [i \in 1..Len(arg) |->
                  get_user_ids_from_message(arg[i], guild[1].command)]
    /\ UNCHANGED <<now, steam, user, guild, user_guild, tasks, sent, nmsg>>

NextCommand ==
    \/ \E content \in Contents :
           \/ on_message_content(content)
           \/ post_missed(content)
    \/ on_ready

SpecCommand == InitCommand /\ [][NextCommand]_vars

\* ------------------------------------------------------------ sessions
\* the positions at which a coroutine is suspended in a call of the
\* upstream (run_in_thread) or of the chat service (fetch_channel)
Awaiting == {"process_lookup", "check_lookup", "check_fetch"}

\* the positions inside a "with self._session() as session" block:
\* process_user_id opens its session after its lookup, check_ban opens it
\* before its lookup and keeps it until the channels are fetched
InSession == {"process_store", "check_lookup", "check_compare", "check_fetch"}

\* ------------------------------------- ingestion with lookups that fail
\* a process_user_ids whose gather raises the first exception
process_user_ids_gather_raise(failed, pending) == gather(failed, pending, FALSE)

\* the gather of process_user_ids: return_exceptions=True
process_user_ids_gather(failed, pending) == gather(failed, pending, TRUE)

\* arg is the on_message handler in flight, from its call of
\* process_user_ids on: idle, suspended at the gather over the
\* process_user_id coroutines of the identities arg.users, or ended; failed
\* holds the identities whose coroutine raised, Count and Errors are the
\* numbers of the line it logs.  The table is empty, every guild has its
\* channel, and the upstream reports every account banned today or none.
InitGather ==
    /\ now = StartNow
    /\ steam \in {[u \in BatchIds |-> d] : d \in {None, StartDay}}
    /\ user = << >>
    /\ guild = [g \in GuildIds |-> [channel |-> g]]
    /\ user_guild = [p \in BatchIds \X GuildIds |-> 0]
    /\ tasks = [t \in TaskIds |-> Idle]
    /\ sent = EmptyBag
    /\ nmsg = 0
    /\ arg = [pc |-> "idle", users |-> {}, failed |-> {}, Count |-> 0, Errors |-> 0]
    /\ res = << >>

\* BanChecker.on_message for a message in the monitored channel of guild
\* g that names the identities ids, up to the await of process_user_ids;
\* the message arrives while no coroutine is in flight.
on_message_gather(g, ids) ==
    /\ arg.pc # "gather"
    /\ \A t \in TaskIds : tasks[t].pc = "idle"
    /\ nmsg < MaxMessages
    /\ nmsg' = nmsg + 1
    /\ Cardinality(ids) <= Cardinality(Free)
    /\ tasks' = Spawn(SortedSeq(ids), "process_lookup", {g})
    /\ arg' = [pc |-> "gather", users |-> ids, failed |-> {}, Count |-> 0,
               Errors |-> 0]
    /\ UNCHANGED <<now, steam, user, guild, user_guild, sent, res>>

\* _get_steam_user raises in the worker thread of the process_user_id of
\* task t (UserNotFoundError): the coroutine ends with the exception,
\* before its session is opened.
process_user_id_raises(t) ==
    /\ tasks[t].pc = "process_lookup"
    /\ tasks' = [tasks EXCEPT ![t] = Idle]
    /\ arg' = [arg EXCEPT !.failed = @ \cup {tasks[t].user}]
    /\ UNCHANGED <<now, steam, user, guild, user_guild, sent, nmsg, res>>

\* the process_user_id coroutines of the handler that have not ended
Processing ==
    {t \in TaskIds : /\ tasks[t].pc \in {"process_lookup", "process_store"}
                     /\ tasks[t].user \in arg.users}

\* process_user_ids from its await to its end, and on_message after it
process_user_ids_end ==
    /\ arg.pc = "gather"
    /\ process_user_ids_gather(arg.failed, Processing) # "pending"
    /\ arg' = [arg EXCEPT
           !.pc = process_user_ids_gather(arg.failed, Processing),
           !.Count = IF process_user_ids_gather(arg.failed, Processing) = "returned"
                     THEN Cardinality(arg.users) ELSE 0,
           !.Errors = IF process_user_ids_gather(arg.failed, Processing) = "returned"
                      THEN Cardinality(arg.failed) ELSE 0]
    /\ UNCHANGED <<now, steam, user, guild, user_guild, tasks, sent, nmsg, res>>

NextGather ==
    \/ \E g \in GuildIds, ids \in SUBSET BatchIds : on_message_gather(g, ids)
    \/ process_user_ids_end
    \/ \E t \in TaskIds :
           \/ run_in_thread(t)
           \/ process_user_id_raises(t)
           \/ process_user_id(t)
           \/ check_ban_start(t)
           \/ check_ban_compare(t)

SpecGather == InitGather /\ [][NextGather]_vars

\* ------------------------------------------------ replay over the guilds
\* Table "guild" when on_ready runs: for each guild the bot is in, no row,
\* a row with no channel (as on_guild_join creates it), or a row whose
\* channel is channel g.  arg[g] holds the identities named by the
\* messages of channel g that carry no reaction of the bot.  res is what
\* on_ready did: whether it raised, and the identities handed to
\* process_user_ids with the guilds they were found in.
MissedTables ==
    UNION {[S -> [channel : GuildIds \cup {None}]] : S \in SUBSET GuildIds}

InitMissed ==
    /\ now = StartNow
    /\ steam = [u \in BatchIds |-> None]
    /\ user = << >>
    /\ guild \in {gt \in MissedTables : \A g \in DOMAIN gt : gt[g].channel \in {None, g}}
    /\ user_guild = [p \in BatchIds \X GuildIds |-> 0]
    /\ tasks = [t \in TaskIds |-> Idle]
    /\ sent = EmptyBag
    /\ nmsg = 0
    /\ arg \in [GuildIds -> SUBSET BatchIds]
    /\ res = << >>

\* find_missed_user_ids(guild) for guild g: {} without a row; with a row
\* whose channel is null, guild.get_channel(None) is None and the log call
\* reads channel.id, which raises AttributeError.
find_missed_user_ids_of(g) ==
    IF g \notin DOMAIN guild THEN [raised |-> FALSE, user_ids |-> {}]
    ELSE IF guild[g].channel = None THEN [raised |-> TRUE, user_ids |-> {}]
    ELSE [raised |-> FALSE, user_ids |-> arg[g]]

\* find_missed_user_ids(None): the gather over the guilds raises what any
\* of them raised; otherwise the results are merged, identity by identity.
find_missed_user_ids ==
    IF \E g \in GuildIds : find_missed_user_ids_of(g).raised
    THEN [raised |-> TRUE, user_ids |-> << >>]
    ELSE [raised |-> FALSE,
          user_ids |-> [u \in UNION {find_missed_user_ids_of(g).user_ids : g \in GuildIds}
                           |-> {g \in GuildIds : u \in find_missed_user_ids_of(g).user_ids}]]

\* BanChecker.on_ready: process_user_ids gets the result of
\* find_missed_user_ids, unless that raised.
on_ready_missed ==
    /\ res = << >>
    /\ res' = <<find_missed_user_ids>>
    /\ UNCHANGED <<now, steam, user, guild, user_guild, tasks, sent, nmsg, arg>>

SpecMissed == InitMissed /\ [][on_ready_missed]_vars

\* ------------------------------------------- other numbers of ticks a day
\* the values CHECK_INTERVAL is given in these runs: the one of the
\* class, half of it and twice it
Intervals == {CHECK_INTERVAL \div 2, CHECK_INTERVAL, 2 * CHECK_INTERVAL}

SecondsPerDay == 86400

\* check_bans_task with CHECK_INTERVAL = check_interval: the slice of the
\* user table selected at hour
BatchAt(rows, hour, check_interval) ==
    LET total_users == Len(rows)
        batch_size == ceil(total_users, check_interval)
    IN LimitOffset(rows, batch_size, batch_size * hour)

\* arg holds CHECK_INTERVAL, the table (start), the ticks so far and the
\* seconds since the scheduler was started, at midnight; res counts the
\* checks of each user.
InitInterval ==
    /\ now = Days(StartDay)
    /\ steam = [u \in UserIds |-> None]
    /\ \E n \in 0..MaxPop : user = [u \in 1..n |-> [date_banned |-> None]]
    /\ guild = [g \in GuildIds |-> [channel |-> None]]
    /\ user_guild = [p \in UserIds \X GuildIds |-> 0]
    /\ tasks = [t \in TaskIds |-> Idle]
    /\ sent = EmptyBag
    /\ nmsg = 0
    /\ \E c \in Intervals :
           arg = [CHECK_INTERVAL |-> c, start |-> DOMAIN user, ticks |-> 0,
                  seconds |-> 0]
    /\ res = [u \in DOMAIN user |-> 0]

\* check_bans_task, run by IntervalTrigger(seconds=86400 // CHECK_INTERVAL)
\* that long after the last run: hour is datetime.utcnow().hour.
interval_tick ==
    /\ arg.ticks < arg.CHECK_INTERVAL
    /\ LET seconds == arg.seconds + (SecondsPerDay \div arg.CHECK_INTERVAL)
           hour == (seconds \div 3600) % 24
           users == BatchAt(SortedSeq(DOMAIN user), hour, arg.CHECK_INTERVAL)
       IN /\ res' = [u \in DOMAIN res |-> IF InSeq(u, users) THEN res[u] + 1 ELSE res[u]]
          /\ arg' = [arg EXCEPT !.ticks = @ + 1, !.seconds = seconds]
    /\ UNCHANGED <<now, steam, user, guild, user_guild, tasks, sent, nmsg>>

SpecInterval == InitInterval /\ [][interval_tick]_vars

\* ------------------------------------------- statistics and memberships
\* The database file holds users, each a member of one guild at least
\* (rows of user_guild); the tables stay as they are while statistics are
\* asked for.
InitStatsGuild ==
    /\ now = StartNow
    /\ steam = [u \in StatsUsers |-> None]
    /\ user \in UNION {[S -> [date_banned : {None, Days(StartDay)}]] :
                          S \in SUBSET StatsUsers}
    /\ guild \in GuildTables
    /\ user_guild \in {ug \in [StatsUsers \X GuildIds -> {0, 1}] :
                          \A u \in StatsUsers :
                              IF u \in DOMAIN user
                              THEN \E g \in GuildIds : ug[<<u, g>>] = 1
                              ELSE \A g \in GuildIds : ug[<<u, g>>] = 0}
    /\ tasks = [t \in TaskIds |-> Idle]
    /\ sent = EmptyBag
    /\ nmsg = 0
    /\ arg = << >>
    /\ res = << >>

NextStatsGuild ==
    \/ \E g \in GuildIds : send_stats_count(g)
    \/ send_stats_send

SpecStatsGuild == InitStatsGuild /\ [][NextStatsGuild]_vars

\* ------------------------------------------- messages of unknown guilds
\* Table "guild" holds a row or none for each guild the bot is in (a
\* guild joined while the bot was down has none).  res is the log of the
\* message events handled: the guild, whether on_message raised, and the
\* identities it handed to process_user_ids.
InitRow ==
    /\ now = StartNow
    /\ steam = [u \in BatchIds |-> None]
    /\ user = << >>
    /\ guild \in {gt \in MissedTables : \A g \in DOMAIN gt : gt[g].channel \in {None, g}}
    /\ user_guild = [p \in BatchIds \X GuildIds |-> 0]
    /\ tasks = [t \in TaskIds |-> Idle]
    /\ sent = EmptyBag
    /\ nmsg = 0
    /\ arg = << >>
    /\ res = << >>

\* BanChecker.on_message for a message of guild g in channel c that names
\* the identities ids and is no command: without a row one_or_none()
\* gives None and db_guild.channel raises AttributeError; no row is added.
on_message_row(g, c, ids) ==
    /\ Len(res) < MaxMessages
    /\ res' = Append(res,
           IF g \notin DOMAIN guild
           THEN [guild |-> g, raised |-> TRUE, user_ids |-> {}]
           ELSE IF guild[g].channel # None /\ guild[g].channel # c
           THEN [guild |-> g, raised |-> FALSE, user_ids |-> {}]
           ELSE [guild |-> g, raised |-> FALSE, user_ids |-> ids])
    /\ UNCHANGED <<now, steam, user, guild, user_guild, tasks, sent, nmsg, arg>>

SpecRow ==
    InitRow /\ [][\E g \in GuildIds, ids \in SUBSET BatchIds :
                     \E c \in {g, OtherChannel} : on_message_row(g, c, ids)]_vars

\* ------------------------------------------------ the bot's own messages
\* What the bot posts in the monitored channel: a ban notification, an
\* embed whose description holds the profile URLs (the content of the
\* message is empty), that notification with the URLs as content, and the
\* statistics of an empty table.
OwnContents ==
    {<< >>,
     Https(PROFILE_URL_REGEX) \o <<"7", "6">>
         \o <<" ">> \o Https(CSGO_STATS_REGEX) \o <<"7", "6">>,
     <<"N", "o", " ", "p", "l", "a", "y", "e", "r", "s", " ", "a", "r",
       "e", " ", "b", "e", "i", "n", "g", " ", "t", "r", "a", "c",
       "k", "e", "d", ".">>}

\* The bot posts a message with this content and the chat service
\* delivers its on_message event to the bot, as for every message.
on_message_own(content) ==
    /\ Len(arg) < MaxMessages
    /\ LET m == [Message(content, TRUE) EXCEPT !.author = "bot"]
           command == guild[1].command
       IN arg' = Append(arg,
              IF startswith(content, command)
              THEN [m EXCEPT !.dispatched = TRUE,
                             !.stats = startswith(Tail(content),
                                                  <<"s", "t", "a", "t", "s">>)]
              ELSE get_user_ids_from_message(m, command))
    /\ UNCHANGED <<now, steam, user, guild, user_guild, tasks, sent, nmsg, res>>

NextOwn ==
    \/ \E content \in Contents :
           \/ on_message_content(content)
           \/ post_missed(content)
    \/ \E content \in OwnContents : on_message_own(content)
    \/ on_ready

SpecOwn == InitCommand /\ [][NextOwn]_vars

\* ------------------------------------------------ the event loop watchdog
\* arg is the StallingEventLoopWatchdog after start(): _stopped, _counter,
\* _stall_counter_ids and whether _loop_ticker is scheduled.  res holds
\* the threads: the watchdog thread (at the test of its outer loop, in
\* cond.wait with last_seen_counter, or exited) and the caller of stop()
\* (not called, past its with block, returned).  The watchdog thread holds
\* the lock of _cond except while it waits, so notify() and stop() get it
\* only then or once the thread has exited.
InitWatchdog ==
    /\ now = StartNow
    /\ steam = [u \in UserIds |-> None]
    /\ user = << >>
    /\ guild = [g \in GuildIds |-> [channel |-> None]]
    /\ user_guild = [p \in UserIds \X GuildIds |-> 0]
    /\ tasks = [t \in TaskIds |-> Idle]
    /\ sent = EmptyBag
    /\ nmsg = 0
    /\ arg = [stopped |-> FALSE, counter |-> 1, stall_counter_ids |-> {},
              loop_ticker |-> "scheduled"]
    /\ res = [watchdog |-> "outer", last_seen_counter |-> 0, stop |-> "idle"]

LockFree == res.watchdog \in {"wait", "exited"}

\* _watchdog_loop at "while not self._stopped": the thread leaves, or
\* notes the counter and starts to wait for _ticker_time.
watchdog_loop_test ==
    /\ res.watchdog = "outer"
    /\ res' = IF arg.stopped
              THEN [res EXCEPT !.watchdog = "exited"]
              ELSE [res EXCEPT !.watchdog = "wait",
                               !.last_seen_counter = arg.counter]
    /\ UNCHANGED <<now, steam, user, guild, user_guild, tasks, sent, nmsg, arg>>

\* _watchdog_loop once _ticker_time has elapsed since it noted the
\* counter: the inner loop ends (a wake-up before that, by notify() of
\* stop included, only makes it wait for the rest of the time), and an
\* unchanged counter is recorded as a stall.
watchdog_loop_elapsed ==
    /\ res.watchdog = "wait"
    /\ arg' = IF res.last_seen_counter = arg.counter
              THEN [arg EXCEPT !.stall_counter_ids = @ \cup {arg.counter}]
              ELSE arg
    /\ res' = [res EXCEPT !.watchdog = "outer"]
    /\ UNCHANGED <<now, steam, user, guild, user_guild, tasks, sent, nmsg>>

\* _ticker_loop, run by the event loop when its timer is due: it
\* schedules itself again and calls notify().
ticker_loop ==
    /\ arg.loop_ticker = "scheduled"
    /\ arg.counter <= MaxTicks
    /\ LockFree
    /\ arg' = [arg EXCEPT !.counter = @ + 1]
    /\ UNCHANGED <<now, steam, user, guild, user_guild, tasks, sent, nmsg, res>>

\* stop(), its with block: _stopped is set and the condition notified.
stop_flag ==
    /\ res.stop = "idle"
    /\ LockFree
    /\ arg' = [arg EXCEPT !.stopped = TRUE]
    /\ res' = [res EXCEPT !.stop = "flagged"]
    /\ UNCHANGED <<now, steam, user, guild, user_guild, tasks, sent, nmsg>>

\* stop(), after its with block: the ticker is cancelled; stop returns.
stop_cancel ==
    /\ res.stop = "flagged"
    /\ arg' = [arg EXCEPT !.loop_ticker = "cancelled"]
    /\ res' = [res EXCEPT !.stop = "returned"]
    /\ UNCHANGED <<now, steam, user, guild, user_guild, tasks, sent, nmsg>>

NextWatchdog ==
    \/ watchdog_loop_test
    \/ watchdog_loop_elapsed
    \/ ticker_loop
    \/ stop_flag
    \/ stop_cancel

SpecWatchdog == InitWatchdog /\ [][NextWatchdog]_vars

\* ==================================================================
\* Claims
\* ==================================================================

\* C1: under checks run one at a time, whatever the upstream reports,
\* a date_banned that is set never becomes None and never moves to an
\* earlier calendar day.
C1_DateBannedMonotone ==
    [][\A u \in DOMAIN user :
          user[u].date_banned # None =>
              /\ u \in DOMAIN user'
              /\ user'[u].date_banned # None
              /\ Date(user'[u].date_banned) >= Date(user[u].date_banned)]_vars

\* C1 witness: two checks in a row each advanced the date of a user, the
\* second from a date that was set.
C1_Witness ==
    \E m1 \in BagToSet(sent), m2 \in BagToSet(sent) :
        /\ m1.user = m2.user
        /\ m1.date_banned # None
        /\ Date(m1.date_banned) < Date(m2.date_banned)
        /\ user[m1.user].date_banned = m2.date_banned

\* C2: the detector equals the reference on every pair of inputs:
\* Same for (None, None) and (d, None), Escalated for (None, d), and for
\* (d1, d2) Escalated exactly when the day of d2 is later than that of d1.
C2_DetectReference ==
    res # << >> =>
        res[1] = CASE arg.comparison = None -> FALSE
                   [] arg.source = None -> TRUE
                   [] OTHER -> arg.comparison \div TicksPerDay
                                   > arg.source \div TicksPerDay

\* C2 witness: the detector escalated from one set date to a date on a
\* later day whose time of day is earlier.
C2_Witness ==
    /\ res = <<TRUE>>
    /\ arg.source # None
    /\ arg.source % TicksPerDay > arg.comparison % TicksPerDay

\* C3 (as claimed): a message naming an identity that is not tracked and
\* that the gateway reports banned registers it with date_banned = None.
C3_RegisteredClear ==
    [][\A t \in TaskIds :
          (/\ tasks[t].pc = "process_store"
           /\ tasks'[t].pc = "check_start"
           /\ tasks[t].user \notin DOMAIN user
           /\ tasks[t].ban_date # None)
          => user'[tasks[t].user].date_banned = None]_vars

\* the embeds a check of task t owes: one for each guild of the user that
\* has a notify channel
Owed(t) ==
    SetToBag({[user |-> tasks[t].user, guild |-> g,
               date_banned |-> tasks[t].date_banned] :
                  g \in {h \in tasks[t].servers : guild[h].channel # None}})

\* C4 (as claimed): a scheduled check that detected a transition sends
\* exactly one message to each guild of the user that has a notify
\* channel, and nothing else.
C4_OnePerConfiguredGuild ==
    [][\A t \in TaskIds :
          (/\ tasks[t].pc = "check_fetch"
           /\ tasks[t].guild_ids = {}
           /\ tasks'[t].pc = "idle")
          => sent' = sent (+) Owed(t)]_vars

\* C5 (as claimed): registering a tracked identity again leaves a set
\* date_banned alone unless the fetched date is on a later day.
C5_UpsertForwardOnly ==
    [][\A t \in TaskIds :
          (/\ tasks[t].pc = "process_store"
           /\ tasks'[t].pc = "check_start"
           /\ tasks[t].user \in DOMAIN user
           /\ user[tasks[t].user].date_banned # None)
          => LET old == user[tasks[t].user].date_banned
                 new == user'[tasks[t].user].date_banned
             IN /\ new # None
                /\ new = old \/ Date(new) > Date(old)]_vars

\* C6 (as claimed): when two checks of a user interleave, the one that
\* writes last never replaces the date the other committed with an
\* earlier day.
C6_NoStaleWrite ==
    [][\A t \in TaskIds, t2 \in TaskIds :
          (/\ t # t2
           /\ tasks[t].pc = "check_compare"
           /\ tasks'[t].pc = "check_fetch"
           /\ tasks[t2].pc = "check_fetch"
           /\ tasks[t2].user = tasks[t].user
           /\ tasks[t2].date_banned = user[tasks[t].user].date_banned)
          => Date(user'[tasks[t].user].date_banned)
                 >= Date(user[tasks[t].user].date_banned)]_vars

\* C7 (as claimed): no guild is sent the notification of one ban of one
\* user more than once.
C7_NoDuplicateNotification ==
    \A m \in BagToSet(sent) : CopiesIn(m, sent) <= 1

\* C8: over the 24 hours of a day the batches of a fixed user table are
\* pairwise disjoint, select every user, and their sizes sum to the size
\* of the table; an empty table selects nothing.
C8_BatchPartition ==
    /\ \A u \in DOMAIN res : res[u] <= 1
    /\ arg.start = {} => arg.sum = 0
    /\ arg.ticks = CHECK_INTERVAL =>
           /\ \A u \in arg.start : res[u] = 1
           /\ arg.sum = Cardinality(arg.start)

\* C8 witness: a cycle over a table of more than 24 users is complete.
C8_Witness ==
    /\ arg.ticks = CHECK_INTERVAL
    /\ Cardinality(arg.start) > CHECK_INTERVAL
    /\ \A u \in arg.start : res[u] = 1

\* C9 (as claimed): over a cycle in which users are registered and none
\* is deleted, every user tracked at its start is selected exactly once.
C9_CycleSelectsOnce ==
    /\ \A u \in arg.start : res[u] <= 1
    /\ arg.ticks = CHECK_INTERVAL => \A u \in arg.start : res[u] = 1

\* C10: however often a user is registered for a guild, table user_guild
\* holds that pair at most once, and once after a registration.
C10_MembershipIdempotent ==
    /\ \A p \in UserIds \X GuildIds : user_guild[p] <= 1
    /\ \A t \in TaskIds :
           tasks[t].pc = "check_start" =>
               \A g \in tasks[t].guild_ids : user_guild[<<tasks[t].user, g>>] = 1

\* C10 witness: two registrations of the same user for the same guild
\* are stored, and their checks are about to start.
C10_Witness ==
    \E t \in TaskIds, t2 \in TaskIds, g \in GuildIds :
        /\ t # t2
        /\ tasks[t].pc = "check_start" /\ tasks[t2].pc = "check_start"
        /\ tasks[t].user = tasks[t2].user
        /\ tasks[t].guild_ids = {g} /\ tasks[t2].guild_ids = {g}
        /\ user_guild[<<tasks[t].user, g>>] = 1

\* C11: when the batch of an hour is done, every member whose own lookup
\* did not fail and whose fetched ban date is later than the stored one
\* has that date persisted and, its guilds having a channel, was notified
\* in each of them, whichever lookups of the batch failed.
C11_BatchSurvivesFailure ==
    (now > StartNow /\ \A t \in TaskIds : tasks[t].pc = "idle") =>
        \A u \in BatchIds :
            LET fetched == get_steam_user(steam[u], now)
            IN (/\ u \notin res
                /\ ban_status_changed(arg[u].date_banned, fetched))
               => /\ user[u].date_banned = Midnight(fetched)
                  /\ (\A g \in Servers(u) : guild[g].channel # None) =>
                         \A g \in Servers(u) :
                             BagIn([user |-> u, guild |-> g,
                                    date_banned |-> Midnight(fetched)], sent)

\* C11 witness: the batch is done, the lookup of one member failed, and
\* another member was persisted and notified.
C11_Witness ==
    /\ now > StartNow
    /\ \A t \in TaskIds : tasks[t].pc = "idle"
    /\ \E u \in BatchIds, u2 \in BatchIds :
           /\ u \in res
           /\ u2 \notin res
           /\ user[u2].date_banned # arg[u2].date_banned
           /\ \E m \in BagToSet(sent) : m.user = u2

\* C12: under checks run one at a time, a check whose fetched ban date
\* falls on the calendar day of the stored date_banned sends nothing and
\* leaves the user table as it is.
C12_SameDayNoRetrigger ==
    [][\A t \in TaskIds :
          (/\ tasks[t].pc = "check_compare"
           /\ tasks'[t].pc # "check_compare"
           /\ tasks[t].ban_date # None
           /\ user[tasks[t].user].date_banned # None
           /\ Date(tasks[t].ban_date) = Date(user[tasks[t].user].date_banned))
          => /\ user' = user
             /\ sent' = sent
             /\ tasks'[t].pc = "idle"]_vars

\* C12 witness: a check persisted a date and notified it, and a later
\* check has fetched a date of the same day at another time of day.
C12_Witness ==
    \E t \in TaskIds :
        /\ tasks[t].pc = "check_compare"
        /\ tasks[t].ban_date # None
        /\ user[tasks[t].user].date_banned # None
        /\ Date(tasks[t].ban_date) = Date(user[tasks[t].user].date_banned)
        /\ tasks[t].ban_date # user[tasks[t].user].date_banned
        /\ \E m \in BagToSet(sent) :
               /\ m.user = tasks[t].user
               /\ m.date_banned = user[tasks[t].user].date_banned

\* C13 (as claimed): every date_banned stored for a user is at midnight.
C13_StoredAtMidnight ==
    \A u \in DOMAIN user :
        user[u].date_banned # None => Hour(user[u].date_banned) = 0

\* C14 (as claimed): when a check that detected a ban ends and one of the
\* guilds it notifies has no notify channel, each of the other guilds it
\* notifies still receives the embed.
C14_UnconfiguredSkipped ==
    [][\A t \in TaskIds :
          (/\ tasks[t].pc = "check_fetch"
           /\ tasks'[t].pc = "idle"
           /\ \E g \in tasks[t].servers : guild[g].channel = None)
          => \A h \in tasks[t].servers :
                 guild[h].channel # None =>
                     LET m == [user |-> tasks[t].user, guild |-> h,
                               date_banned |-> tasks[t].date_banned]
                     IN CopiesIn(m, sent') = CopiesIn(m, sent) + 1]_vars

\* C15 (as claimed): a message of a guild whose notify channel is not set
\* starts no registration: every process_user_id that is started acts for
\* a guild that has a notify channel.
C15_UnconfiguredNotScanned ==
    [][\A t \in TaskIds :
          (tasks[t].pc = "idle" /\ tasks'[t].pc = "process_lookup")
          => \A g \in tasks'[t].guild_ids : guild[g].channel # None]_vars

C17_RegisteredOnce ==
    \A m \in MessageIds : res[m] <= 1

\* the guilds that receive an embed of task t in this step
Notified(t) ==
    {g \in GuildIds :
        LET m == [user |-> tasks[t].user, guild |-> g,
                  date_banned |-> tasks[t].date_banned]
        IN CopiesIn(m, sent') > CopiesIn(m, sent)}

C19_NameFollowsLookup ==
    res.looked # << >> =>
        res.name[res.looked[1].user] = res.looked[1].name

\* C20 (as claimed): in strict mode the extractor returns at most one
\* identity, the input itself when the input is a bare positive integer
\* or a handle of letters and digits, and raises NotFound when the input
\* is neither.
C20_StrictOneOrNotFound ==
    res # << >> =>
        LET integer == /\ arg # << >>
                       /\ arg[1] \in Digits \ {"0"}
                       /\ \A k \in DOMAIN arg : arg[k] \in Digits
            handle == /\ arg # << >>
                      /\ \A k \in DOMAIN arg : arg[k] \in Lower \cup Upper \cup Digits
        IN IF integer \/ handle
           THEN res[1].raised = None /\ res[1].user_ids = <<arg>>
           ELSE res[1].raised # None

\* the matches of regex in string from position i on, each with the
\* position at which it opens
RECURSIVE MatchesFrom(_, _, _)
MatchesFrom(regex, string, i) ==
    IF i > Len(string) THEN {}
    ELSE LET m == MatchAt(regex, string, i)
         IN IF m = << >> THEN MatchesFrom(regex, string, i + 1)
            ELSE {[at |-> i, id |-> SubSeq(string, m[1], m[2])]}
                     \cup MatchesFrom(regex, string,
                                      RunEnd(string, m[2] + 1, regex.trail) + 1)

\* the identities of the matches ms, by the position at which they open
RECURSIVE InTextOrder(_)
InTextOrder(ms) ==
    IF ms = {} THEN << >>
    ELSE LET m == CHOOSE x \in ms : \A y \in ms : x.at <= y.at
         IN <<m.id>> \o InTextOrder(ms \ {m})

\* C21 (as claimed): in permissive mode the extractor returns the matches
\* of the three URL patterns, every one of them, duplicates kept, in the
\* order in which they open in the text.
C21_PermissiveTextOrder ==
    res # << >> =>
        res[1].user_ids =
            InTextOrder(MatchesFrom(COMMUNITY_URL_REGEX, arg, 1)
                            \cup MatchesFrom(PROFILE_URL_REGEX, arg, 1)
                            \cup MatchesFrom(CSGO_STATS_REGEX, arg, 1))

\* C22: send_stats counts every user as total and the users with a
\* date_banned as banned, and the message it sends is the "no players"
\* text exactly when the total is 0 and otherwise carries these two
\* counts, banned at most total.
C22_StatsVariant ==
    [][/\ (arg = << >> /\ arg' # << >>) =>
              /\ arg'[1].total_count = Cardinality(DOMAIN user)
              /\ arg'[1].banned_count =
                     Cardinality({u \in DOMAIN user : user[u].date_banned # None})
       /\ (arg # << >> /\ arg' = << >> /\ guild[arg[1].guild].channel # None) =>
              /\ res' # << >>
              /\ res'[1].guild = arg[1].guild
              /\ (res'[1].message.text = "No players are being tracked.")
                     <=> (arg[1].total_count = 0)
              /\ arg[1].total_count # 0 =>
                     /\ res'[1].message.banned_count = arg[1].banned_count
                     /\ res'[1].message.total_count = arg[1].total_count
                     /\ res'[1].message.banned_count <= res'[1].message.total_count
      ]_vars

\* C22 witness: the last message sent reports some but not all of the
\* tracked users banned.
C22_Witness ==
    /\ res # << >>
    /\ res[1].message.banned_count > 0
    /\ res[1].message.banned_count < res[1].message.total_count

\* C23 (as claimed): when the chat credential or the lookup credential is
\* missing, the process logs a diagnostic, constructs no checker and
\* exits with a non-zero status.
C23_MissingCredentialExits ==
    (/\ res # << >>
     /\ \/ arg.DISCORD_API_TOKEN \in {"<unset>", ""}
        \/ arg.STEAM_API_TOKEN \in {"<unset>", ""})
    => /\ res[1].critical # ""
       /\ ~res[1].checker
       /\ res[1].status # 0

\* C24 (as claimed): every batch tick terminates: check_bans_task, once
\* suspended at its gather, eventually ends, also when a lookup of the
\* batch never answers.
C24_TickTerminates == (arg.pc = "gather") ~> (arg.pc # "gather")

\* C27 (as claimed): check_bans_task ends, returned or raised, only when
\* no check of its batch is still in flight.
C27_TickAwaitsAll ==
    arg.pc \in {"returned", "raised"} => InFlight(arg.users) = {}

\* C25 (as claimed): the join handler is get-or-create: it never raises,
\* a join for an id already in the table leaves the table as it was, and
\* a join for a new id adds one row with command "!" and no channel.
C25_JoinGetOrCreate ==
    [][\A g \in GuildIds :
          on_guild_join(g) =>
              /\ ~res'[Len(res')].raised
              /\ IF g \in DOMAIN guild
                 THEN guild' = guild
                 ELSE guild' = guild @@ (g :> [command |-> "!", channel |-> None])]_vars

C28_NoSessionAcrossAwait ==
    \A t \in TaskIds : tasks[t].pc \in Awaiting => tasks[t].pc \notin InSession

\* C30: a check whose lookup returned no ban date ends at its comparison
\* with the row of the user as it was, Clear or Banned, and with nothing
\* sent and nothing left to send.
C30_AbsentIsNoOp ==
    [][\A t \in TaskIds :
          (check_ban_compare(t) /\ tasks[t].ban_date = None)
          => /\ user' = user
             /\ sent' = sent
             /\ tasks'[t].pc = "idle"]_vars

\* the lookup of a check returned no ban date for a user stored as Banned
C30_Witness ==
    \E t \in TaskIds :
        /\ tasks[t].pc = "check_compare"
        /\ tasks[t].ban_date = None
        /\ tasks[t].date_banned # None
        /\ user[tasks[t].user].date_banned # None

\* C29: when the lookup of one identity of a message fails, the handler
\* still ends by returning, with the failure counted among its errors and
\* every other identity in the table; the failing coroutine leaves its
\* siblings and the tables as they were, and every process_user_id that
\* stores its row starts the check of its user.
C29_IngestionCapturesFailure ==
    /\ [](/\ arg.pc # "raised"
          /\ arg.pc = "returned" =>
                 /\ arg.Count = Cardinality(arg.users)
                 /\ arg.Errors = Cardinality(arg.failed)
                 /\ \A u \in arg.users \ arg.failed : u \in DOMAIN user)
    /\ [][\A t \in TaskIds :
             /\ process_user_id_raises(t) =>
                    /\ \A o \in TaskIds \ {t} : tasks'[o] = tasks[o]
                    /\ user' = user /\ user_guild' = user_guild
             /\ process_user_id(t) =>
                    /\ tasks'[t].pc = "check_start"
                    /\ tasks[t].user \in DOMAIN user']_vars

\* a handler has returned with one identity failed and another registered
C29_Witness ==
    /\ arg.pc = "returned"
    /\ arg.Errors = 1
    /\ arg.Count = 2
    /\ \E u \in arg.users \ arg.failed : u \in DOMAIN user

\* C31 (as claimed): on_ready does not raise when a guild has a row with
\* no channel, and every identity missed in the channel of a configured
\* guild is handed to process_user_ids with that guild.
C31_UnconfiguredSkippedOnReplay ==
    res # << >> =>
        /\ ~res[1].raised
        /\ \A g \in DOMAIN guild :
               guild[g].channel # None =>
                   \A u \in arg[g] :
                       /\ u \in DOMAIN res[1].user_ids
                       /\ g \in res[1].user_ids[u]

\* C32 (as claimed): whatever CHECK_INTERVAL is, the CHECK_INTERVAL ticks
\* of one day check every user of the table once.
C32_AnyIntervalCovers ==
    arg.ticks = arg.CHECK_INTERVAL => \A u \in arg.start : res[u] = 1

\* the users that are members of guild g
Members(g) == {u \in DOMAIN user : g \in Servers(u)}

\* C33 (as claimed): the message send_stats sends to a guild is the one
\* built from the number of members of that guild and the number of
\* banned members of that guild.
C33_StatsPerGuild ==
    res # << >> =>
        res[1].message =
            StatsMessage(Cardinality(Members(res[1].guild)),
                         Cardinality({u \in Members(res[1].guild) :
                                         user[u].date_banned # None}))

\* C34 (as claimed): on_message never raises, also for a message of a
\* guild that has no row in table guild.
C34_UnknownGuildHandled ==
    \A i \in 1..Len(res) : ~res[i].raised

\* C35: a message the bot authored never gets a reaction of the bot and
\* none of its identities reaches process_user_ids, on live delivery or
\* on replay.
C35_OwnMessagesIgnored ==
    \A i \in 1..Len(arg) :
        arg[i].author = "bot" =>
            /\ arg[i].reaction = ""
            /\ arg[i].user_ids = << >>

\* a message of the bot that holds profile URLs was delivered to the bot
\* and a replay has gone over it
C35_Witness ==
    /\ res > 0
    /\ \E i \in 1..Len(arg) :
           /\ arg[i].author = "bot"
           /\ find_user_ids_in_string(arg[i].content, TRUE).user_ids # << >>

\* C36 (as claimed): once stop() has returned, no stall is recorded:
\* _stall_counter_ids stays as it is.
C36_NoStallAfterStop ==
    [][res.stop = "returned" =>
           arg'.stall_counter_ids = arg.stall_counter_ids]_vars

====
